---- MODULE Spec2Model ----
(***************************************************************************)
(* The coordinate-frame transform tree of ros_web_gui_app (utils/tf2js):   *)
(* class Frame, class TF2JS (frame store, findTransform, change notifier). *)
(*                                                                         *)
(* Rigid transforms.  The code holds a THREE.Vector3 translation and a     *)
(* THREE.Quaternion rotation per link and composes 4x4 homogeneous         *)
(* matrices.  Here a transform is [rot, tr]: rot in 0..3 is the rotation   *)
(* about Z by rot*90 degrees (quaternion (0,0,sin(rot*45),cos(rot*45))),   *)
(* tr is an integer vector <<x,y,z>>.  These matrices are closed under     *)
(* product and inverse and do not commute, and on them the matrix          *)
(* arithmetic is exact.                                                    *)
(***************************************************************************)
EXTENDS Integers, Sequences, FiniteSets, TLC

VARIABLES frames,            \* TF2JS.frames: the ids that are keys of the Map
          parent,            \* Frame.parent, per frame id (NoFrame: null)
          children,          \* Frame.children, per frame id (an array)
          transformToParent, \* Frame.transformToParent (NoTransform: null)
          rootFrame,         \* TF2JS.rootFrame (NoFrame: null)
          changeCallbacks,   \* TF2JS.changeCallbacks (a Set of functions)
          insertionOrder,    \* the callbacks of the Set in insertion order,
                             \* the order in which `for ... of` visits them
          unsubscribers,     \* the functions onTransformChange has returned,
                             \* in order: the callback each one captured
          called,            \* which of them their holders have called
          connection,        \* TF2JS.connection (NoSource: null)
          tfUnsubscribe,     \* TF2JS.tfUnsubscribe: the connection its
                             \* closure captured (NoSource: null)
          tfStaticUnsubscribe, \* TF2JS.tfStaticUnsubscribe, likewise
          ros,               \* per connection: RosbridgeConnection.ros, as
                             \* "none" (null or not yet open), "open", "closed"
          subscribers,       \* per connection: the keys of
                             \* RosbridgeConnection.subscribers
          components,        \* per React component: where its connection
                             \* effect stands
          issued,            \* the calls the most recent operation made on
                             \* connections, in order
          calls,             \* per callback: what it saw at each invocation
                             \* made by the most recent operation
          op,                \* the most recent operation and its arguments
          ret                \* what the most recent query returned

vars == <<frames, parent, children, transformToParent, rootFrame,
          changeCallbacks, insertionOrder, unsubscribers, called, connection,
          tfUnsubscribe,
          tfStaticUnsubscribe, ros, subscribers, components, issued,
          calls, op, ret>>

storeVars == <<frames, parent, children, transformToParent, rootFrame>>

notifierVars == <<changeCallbacks, insertionOrder, unsubscribers, called>>

adapterVars == <<connection, tfUnsubscribe, tfStaticUnsubscribe>>

connectionVars == <<ros, subscribers>>

-----------------------------------------------------------------------------
(* Values *)

FrameIds == {"map", "base", "sensor", "world"}

\* The key a message entry without frame_id or child_frame_id reads as:
\* JavaScript's undefined, a legal key of the frames Map.
UndefinedId == "undefined"

\* Every key the frames Map can hold.
FrameKeys == FrameIds \cup {UndefinedId}

\* An id no transform ever names: what a caller asks about an unobserved frame.
UnknownId == "nope"

\* null, as a Frame reference.
NoFrame == "null"

\* null, as a Transform (Frame.transformToParent of a frame never given one).
NoTransform == [null |-> TRUE]

\* null, as the value findTransform returns.
Null == [null |-> TRUE]

\* The outcome of a call whose `while (current)` loop never exits: the walk
\* revisits a frame for ever (the path array grows until the engine gives up).
Diverges == [diverges |-> TRUE]

Callbacks == {"cb1", "cb2"}

\* The most functions onTransformChange hands out in one run.
MaxHandles == 3

\* The RosbridgeConnection objects, and null as a connection reference.
Sources == {"A", "B"}
NoSource == "none"

\* The components whose connection effect initializes and disconnects the
\* TF2JS singleton; MapEditor is rendered inside MapView.
Components == {"MapView", "MapEditor"}

\* The channels: live and static transforms.
Topics == {"/tf", "/tf_static"}

Vec(x, y, z) == <<x, y, z>>

Transform(rot, tr) == [rot |-> rot, tr |-> tr]

\* What an entry's `transform` reads as when the message lacks the field, or
\* when the field is there without its translation or without its rotation.
MissingTransform == [missing |-> "transform"]
MissingTranslation == [missing |-> "translation"]
MissingRotation == [missing |-> "rotation"]

\* The TypeError a property read on undefined raises, as an operation's
\* outcome.
TypeError == [throws |-> "TypeError"]

\* The links that arrive in messages.
TX == Transform(0, Vec(1, 0, 0))

TY == Transform(0, Vec(0, 1, 0))

RZ == Transform(1, Vec(1, 0, 0))

InputTransforms == {TX, TY, RZ}

-----------------------------------------------------------------------------
(* THREE.Matrix4 on rigid transforms *)

\* The rotation part of makeRotationFromQuaternion applied to a vector.
Rotate(rot, v) ==
  CASE rot = 0 -> v
    [] rot = 1 -> Vec(-v[2], v[1], v[3])
    [] rot = 2 -> Vec(-v[1], -v[2], v[3])
    [] rot = 3 -> Vec(v[2], -v[1], v[3])

VecAdd(u, v) == Vec(u[1] + v[1], u[2] + v[2], u[3] + v[3])

VecNeg(v) == Vec(-v[1], -v[2], -v[3])

\* makeTranslation(0,0,0) then makeRotationFromQuaternion((0,0,0,1)).
IdentityMatrix == Transform(0, Vec(0, 0, 0))

\* A slip for MatrixOf: setPosition left out.
MatrixOfRotationOnly(t) == Transform(t.rot, Vec(0, 0, 0))

\* makeRotationFromQuaternion(t.rotation); setPosition(t.translation).
MatrixOf(t) == Transform(t.rot, t.tr)

\* Matrix4.multiplyMatrices(a, b): the product a * b.
multiplyMatrices(a, b) ==
  Transform((a.rot + b.rot) % 4, VecAdd(a.tr, Rotate(a.rot, b.tr)))

\* Matrix4.invert().
invert(m) ==
  LET r == (4 - m.rot) % 4 IN Transform(r, VecNeg(Rotate(r, m.tr)))

\* Matrix4.decompose(position, quaternion, scale).
decompose(m) == Transform(m.rot, m.tr)

-----------------------------------------------------------------------------
(* class Frame and the frame store *)

\* The store as one value: what the fields of TF2JS and of its Frames hold.
Store ==
  [frames |-> frames, parent |-> parent, children |-> children,
   transformToParent |-> transformToParent, rootFrame |-> rootFrame]

\* new TF2JS(): no frame, no root.  frames.clear() drops every Frame object,
\* so an id created afterwards starts as a fresh Frame again.
EmptyStore ==
  [frames |-> {},
   parent |-> [f \in FrameKeys |-> NoFrame],
   children |-> [f \in FrameKeys |-> <<>>],
   transformToParent |-> [f \in FrameKeys |-> NoTransform],
   rootFrame |-> NoFrame]

\* Array.indexOf(x): the first index holding x, 0 when there is none.
indexOf(arr, x) ==
  IF \E i \in 1..Len(arr) : arr[i] = x
  THEN CHOOSE i \in 1..Len(arr) : arr[i] = x /\ \A j \in 1..(i - 1) : arr[j] # x
  ELSE 0

\* Array.splice(index, 1).
splice(arr, index) ==
  SubSeq(arr, 1, index - 1) \o SubSeq(arr, index + 1, Len(arr))

\* A slip for setParent: the frame is not taken out of its old parent's
\* children.
setParentKeepsOldEdge(st, this, newParent, transform) ==
  [st EXCEPT !.parent[this] = newParent,
             !.transformToParent[this] = transform,
             !.children[newParent] = Append(@, this)]

\* Frame.setParent(parent, transform), on frame `this`.
setParent(st, this, newParent, transform) ==
  LET old == st.parent[this]
      index == IF old # NoFrame THEN indexOf(st.children[old], this) ELSE 0
      detached == IF index > 0
                  THEN [st.children EXCEPT ![old] = splice(@, index)]
                  ELSE st.children
  IN [st EXCEPT !.parent[this] = newParent,
                !.transformToParent[this] = transform,
                !.children = [detached EXCEPT ![newParent] = Append(@, this)]]

\* A slip for getOrCreateFrame: the first frame is not made the root.
getOrCreateFrameKeepsRoot(st, frameId) ==
  [st EXCEPT !.frames = @ \cup {frameId}]

\* TF2JS.getOrCreateFrame(frameId): the store afterwards (the Frame is frameId).
getOrCreateFrame(st, frameId) ==
  IF frameId \in st.frames
  THEN st
  ELSE [st EXCEPT !.frames = @ \cup {frameId},
                  !.rootFrame = IF @ = NoFrame THEN frameId ELSE @]

\* Whether addTransform(transformStamped) throws: reading `.translation` of a
\* missing transform, or `.x` of a missing translation or rotation.
addTransformThrows(ts) ==
  ts.transform \in {MissingTransform, MissingTranslation, MissingRotation}

\* TF2JS.addTransform(transformStamped), for an entry
\* [frame_id, child_frame_id, transform]: the store it leaves, also when it
\* throws.  A missing transform throws before anything is touched; a missing
\* translation or rotation throws after both frames were looked up or
\* created; a missing id is the key undefined and nothing throws.
addTransform(st, ts) ==
  LET withParent == getOrCreateFrame(st, ts.frame_id)
      withChild == getOrCreateFrame(withParent, ts.child_frame_id)
      linked == setParent(withChild, ts.child_frame_id, ts.frame_id, ts.transform)
  IN IF ts.transform = MissingTransform
     THEN st
     ELSE IF ts.transform \in {MissingTranslation, MissingRotation}
     THEN withChild
     ELSE IF withChild.rootFrame = ts.child_frame_id
     THEN [linked EXCEPT !.rootFrame = ts.frame_id]
     ELSE linked

\* The loop of addTransforms: every entry applied in order, up to and
\* including the first one that throws.
RECURSIVE applyEach(_, _)
applyEach(st, transforms) ==
  IF transforms = <<>>
  THEN st
  ELSE IF addTransformThrows(Head(transforms))
  THEN addTransform(st, Head(transforms))
  ELSE applyEach(addTransform(st, Head(transforms)), Tail(transforms))

\* Whether addTransforms(transforms) throws: the loop has no try/catch.
addTransformsThrows(transforms) ==
  \E i \in 1..Len(transforms) : addTransformThrows(transforms[i])

-----------------------------------------------------------------------------
(* findTransform *)

\* while (current) { path.push(current); current = current.parent; }
\* A walk in a store of N frames that has pushed more than N frames has
\* pushed one twice and goes round for ever; it is cut there.
RECURSIVE parentWalk(_, _, _)
parentWalk(st, current, path) ==
  IF current = NoFrame \/ Len(path) > Cardinality(FrameKeys)
  THEN path
  ELSE parentWalk(st, st.parent[current], Append(path, current))

\* Whether the walk from `frame` reaches a frame without parent.
walkExits(st, frame) ==
  Len(parentWalk(st, frame, <<>>)) <= Cardinality(FrameKeys)

includes(arr, x) == \E i \in 1..Len(arr) : arr[i] = x

\* A slip for commonAncestorIndex: the search accepts the target frame alone
\* (source below target), never a frame above the target.
commonAncestorIndexTargetOnly(pathToRoot, targetPath) ==
  IF \E i \in 1..Len(pathToRoot) : pathToRoot[i] = targetPath[1]
  THEN CHOOSE i \in 1..Len(pathToRoot) : pathToRoot[i] = targetPath[1]
  ELSE 0

\* A slip for commonAncestorIndex: the last frame of pathToRoot that is in
\* targetPath (the highest common frame) in place of the first.
commonAncestorIndexLast(pathToRoot, targetPath) ==
  IF \E i \in 1..Len(pathToRoot) : includes(targetPath, pathToRoot[i])
  THEN CHOOSE i \in 1..Len(pathToRoot) :
         /\ includes(targetPath, pathToRoot[i])
         /\ \A j \in (i + 1)..Len(pathToRoot) :
              ~includes(targetPath, pathToRoot[j])
  ELSE 0

\* pathToRoot.find((frame) => targetPath.includes(frame)): the index of the
\* first frame of pathToRoot that is in targetPath, 0 when there is none.
commonAncestorIndex(pathToRoot, targetPath) ==
  IF \E i \in 1..Len(pathToRoot) : includes(targetPath, pathToRoot[i])
  THEN CHOOSE i \in 1..Len(pathToRoot) :
         /\ includes(targetPath, pathToRoot[i])
         /\ \A j \in 1..(i - 1) : ~includes(targetPath, pathToRoot[j])
  ELSE 0

\* current = from; while (current && current !== commonAncestor) { push the
\* transform to parent when there is one; current = current.parent }.
\* Only called on a walk that exits: the links in push order.
RECURSIVE linksBelow(_, _, _)
linksBelow(st, current, commonAncestor) ==
  IF current = NoFrame \/ current = commonAncestor
  THEN <<>>
  ELSE (IF st.transformToParent[current] # NoTransform
        THEN <<st.transformToParent[current]>>
        ELSE <<>>)
       \o linksBelow(st, st.parent[current], commonAncestor)

Reverse(arr) == [i \in 1..Len(arr) |-> arr[Len(arr) + 1 - i]]

\* for (const transform of sourceToCommon)
\*   resultTransform.multiplyMatrices(resultTransform, matrix)
RECURSIVE composeForward(_, _)
composeForward(resultTransform, links) ==
  IF links = <<>>
  THEN resultTransform
  ELSE composeForward(multiplyMatrices(resultTransform, MatrixOf(Head(links))),
                      Tail(links))

\* for (const transform of commonToTarget)
\*   resultTransform.multiplyMatrices(resultTransform, inverse of matrix)
RECURSIVE composeInverse(_, _)
composeInverse(resultTransform, links) ==
  IF links = <<>>
  THEN resultTransform
  ELSE composeInverse(
         multiplyMatrices(resultTransform, invert(MatrixOf(Head(links)))),
         Tail(links))

\* A slip for commonToTargetOf: push in place of unshift.
commonToTargetPushed(st, target, commonAncestor) ==
  linksBelow(st, target, commonAncestor)

\* The second array of findTransform: each link of the target side is
\* unshifted, so the array runs from the ancestor's side down to the target.
commonToTargetOf(st, target, commonAncestor) ==
  Reverse(linksBelow(st, target, commonAncestor))

\* TF2JS.findTransform(targetFrame, sourceFrame) in store st.
findTransform(st, targetFrame, sourceFrame) ==
  IF targetFrame \notin st.frames \/ sourceFrame \notin st.frames
  THEN Null
  ELSE IF ~walkExits(st, sourceFrame) \/ ~walkExits(st, targetFrame)
  THEN Diverges
  ELSE
    LET pathToRoot == parentWalk(st, sourceFrame, <<>>)
        targetPath == parentWalk(st, targetFrame, <<>>)
        found == commonAncestorIndex(pathToRoot, targetPath)
    IN IF found = 0
       THEN Null
       ELSE
         LET commonAncestor == pathToRoot[found]
             sourceToCommon == linksBelow(st, sourceFrame, commonAncestor)
             commonToTarget == commonToTargetOf(st, targetFrame, commonAncestor)
         IN decompose(composeInverse(
                        composeForward(IdentityMatrix, sourceToCommon),
                        commonToTarget))

\* TF2JS.getFrames().
getFrames(st) == st.frames

\* TF2JS.hasFrame(frameId).
hasFrame(st, frameId) == frameId \in st.frames

-----------------------------------------------------------------------------
(* The change notifier and the operations of TF2JS *)

NoCalls == [cb \in Callbacks |-> <<>>]

\* What a void operation leaves as its return value.
Void == [void |-> TRUE]

\* TF2JS.notifyChange(): every callback of the set is called once; a callback
\* re-queries the store, so what it sees is the store at that moment.
notifyChange(log, registered, st) ==
  [cb \in Callbacks |->
     IF cb \in registered THEN Append(log[cb], st) ELSE log[cb]]

\* A slip for addTransformsCalls: notifyChange() inside the loop.
RECURSIVE notifyEach(_, _, _, _)
notifyEach(log, registered, st, transforms) ==
  IF transforms = <<>>
  THEN log
  ELSE LET next == addTransform(st, Head(transforms))
       IN notifyEach(notifyChange(log, registered, next), registered, next,
                     Tail(transforms))

addTransformsCallsPerEntry(registered, st, transforms) ==
  notifyEach(NoCalls, registered, st, transforms)

\* A slip for addTransformsCalls: notifyChange() without the `changed` test.
addTransformsCallsAlways(registered, st, transforms) ==
  notifyChange(NoCalls, registered, applyEach(st, transforms))

\* The calls addTransforms(transforms) makes to the callbacks: `changed` is
\* set by each iteration of the loop, notifyChange() runs after the loop.
addTransformsCalls(registered, st, transforms) ==
  LET changed == Len(transforms) > 0
  IN IF changed /\ ~addTransformsThrows(transforms)
     THEN notifyChange(NoCalls, registered, applyEach(st, transforms))
     ELSE NoCalls

SetStore(st) ==
  /\ frames' = st.frames
  /\ parent' = st.parent
  /\ children' = st.children
  /\ transformToParent' = st.transformToParent
  /\ rootFrame' = st.rootFrame

Operation(name, n, args) == [name |-> name, n |-> n, args |-> args]

\* TF2JS.addTransforms(transforms).
addTransforms(transforms) ==
  /\ SetStore(applyEach(Store, transforms))
  /\ calls' = addTransformsCalls(changeCallbacks, Store, transforms)
  /\ op' = Operation("addTransforms", Len(transforms), <<>>)
  /\ ret' = IF addTransformsThrows(transforms) THEN TypeError ELSE Void
  /\ issued' = <<>>
  /\ UNCHANGED <<notifierVars, adapterVars, connectionVars, components>>

\* A slip for clear: the root is not reset.
clearKeepsRoot ==
  /\ SetStore([EmptyStore EXCEPT !.rootFrame = rootFrame])
  /\ calls' = notifyChange(NoCalls, changeCallbacks, EmptyStore)
  /\ op' = Operation("clear", 0, <<>>)
  /\ ret' = Void
  /\ issued' = <<>>
  /\ UNCHANGED <<notifierVars, adapterVars, connectionVars, components>>

\* TF2JS.clear().
clear ==
  /\ SetStore(EmptyStore)
  /\ calls' = notifyChange(NoCalls, changeCallbacks, EmptyStore)
  /\ op' = Operation("clear", 0, <<>>)
  /\ ret' = Void
  /\ issued' = <<>>
  /\ UNCHANGED <<notifierVars, adapterVars, connectionVars, components>>

\* The functions onTransformChange has returned for `callback`.
Handles(callback) ==
  {h \in 1..Len(unsubscribers) : unsubscribers[h] = callback}

\* Set.prototype.add on the insertion order: a member keeps its place.
setAdd(order, callback) ==
  IF includes(order, callback) THEN order ELSE Append(order, callback)

\* Set.prototype.delete on the insertion order.
setDelete(order, callback) ==
  SelectSeq(order, LAMBDA x : x # callback)

\* TF2JS.onTransformChange(callback): the callback joins the Set (a Set holds
\* a function once however often it is added) and a new function that
\* captures it is returned.
onTransformChange(callback) ==
  /\ Len(unsubscribers) < MaxHandles
  /\ changeCallbacks' = changeCallbacks \cup {callback}
  /\ insertionOrder' = setAdd(insertionOrder, callback)
  /\ unsubscribers' = Append(unsubscribers, callback)
  /\ calls' = NoCalls
  /\ op' = Operation("onTransformChange", Len(unsubscribers) + 1, <<callback>>)
  /\ ret' = Void
  /\ issued' = <<>>
  /\ UNCHANGED <<storeVars, called, adapterVars, connectionVars, components>>

\* The h-th function onTransformChange returned, called by its holder (for
\* the first time or again): this.changeCallbacks.delete(callback).
unsubscribe(h) ==
  /\ h \in 1..Len(unsubscribers)
  /\ changeCallbacks' = changeCallbacks \ {unsubscribers[h]}
  /\ insertionOrder' = setDelete(insertionOrder, unsubscribers[h])
  /\ called' = called \cup {h}
  /\ calls' = NoCalls
  /\ op' = Operation("unsubscribe", h, <<unsubscribers[h]>>)
  /\ ret' = Void
  /\ issued' = <<>>
  /\ UNCHANGED <<storeVars, unsubscribers, adapterVars, connectionVars, components>>

\* A slip for findTransformCall: the lookups go through getOrCreateFrame.
findTransformCallCreating(targetFrame, sourceFrame) ==
  LET st == getOrCreateFrame(getOrCreateFrame(Store, targetFrame), sourceFrame)
  IN /\ SetStore(st)
     /\ ret' = findTransform(Store, targetFrame, sourceFrame)
     /\ calls' = NoCalls
     /\ op' = Operation("findTransform", 0, <<targetFrame, sourceFrame>>)
     /\ issued' = <<>>
  /\ UNCHANGED <<notifierVars, adapterVars, connectionVars, components>>

\* A caller's findTransform(targetFrame, sourceFrame).
findTransformCall(targetFrame, sourceFrame) ==
  /\ ret' = findTransform(Store, targetFrame, sourceFrame)
  /\ calls' = NoCalls
  /\ op' = Operation("findTransform", 0, <<targetFrame, sourceFrame>>)
  /\ issued' = <<>>
  /\ UNCHANGED <<storeVars, notifierVars, adapterVars, connectionVars, components>>

\* A caller's getFrames().
getFramesCall ==
  /\ ret' = [frames |-> getFrames(Store)]
  /\ calls' = NoCalls
  /\ op' = Operation("getFrames", 0, <<>>)
  /\ issued' = <<>>
  /\ UNCHANGED <<storeVars, notifierVars, adapterVars, connectionVars, components>>

\* A caller's hasFrame(frameId).
hasFrameCall(frameId) ==
  /\ ret' = [has |-> hasFrame(Store, frameId)]
  /\ calls' = NoCalls
  /\ op' = Operation("hasFrame", 0, <<frameId>>)
  /\ issued' = <<>>
  /\ UNCHANGED <<storeVars, notifierVars, adapterVars, connectionVars, components>>

-----------------------------------------------------------------------------
(* notifyChange with callbacks that call back into TF2JS *)

\* What a callback does when it is called: it returns at once, or it first
\* calls onTransformChange(whom), or a function onTransformChange returned
\* for whom, or that function and then onTransformChange(whom) again.
Returns == [does |-> "returns", whom |-> "nobody"]
Behaviours ==
  {Returns}
  \cup [does : {"registers", "unsubscribes", "reregisters"}, whom : Callbacks]

\* The calls after which a round is given up as never ending: a round is
\* deterministic in (insertion order, position), and there are fewer than
\* MaxRoundCalls such pairs over two callbacks.
MaxRoundCalls == 16

\* for (const callback of this.changeCallbacks) callback(): the iterator of
\* a Set visits the entries in insertion order, skips an entry deleted
\* before its turn and visits an entry added before the iteration has ended.
\* `i` is the position of the entry visited next, `r` the round so far: the
\* insertion order, the calls made, the callbacks registered and
\* unsubscribed by callbacks.
RECURSIVE notifyRound(_, _, _, _)
notifyRound(r, i, behaviour, st) ==
  IF i > Len(r.order)
  THEN [r EXCEPT !.returns = TRUE]
  ELSE IF r.steps >= MaxRoundCalls
  THEN r
  ELSE
    LET callback == r.order[i]
        b == behaviour[callback]
        deletes == b.does \in {"unsubscribes", "reregisters"}
        adds == b.does \in {"registers", "reregisters"}
        j == IF deletes THEN indexOf(r.order, b.whom) ELSE 0
        afterDelete == IF deletes THEN setDelete(r.order, b.whom) ELSE r.order
        afterAdd == IF adds THEN setAdd(afterDelete, b.whom) ELSE afterDelete
        next == IF j # 0 /\ j <= i THEN i ELSE i + 1
    IN notifyRound(
         [r EXCEPT !.order = afterAdd,
                   !.log[callback] = Append(@, st),
                   !.made = IF adds THEN Append(@, b.whom) ELSE @,
                   !.dropped = IF deletes THEN @ \cup {b.whom} ELSE @,
                   !.steps = @ + 1],
         next, behaviour, st)

\* TF2JS.notifyChange() on the Set as it stands, callbacks behaving as
\* `behaviour` says.
notifyChangeReentrant(order, behaviour, st) ==
  notifyRound([order |-> order, log |-> NoCalls, made |-> <<>>,
               dropped |-> {}, steps |-> 0, returns |-> FALSE],
              1, behaviour, st)

\* TF2JS.clear() with callbacks that call back into TF2JS.  A callback that
\* unsubscribes `whom` calls the oldest function returned for whom.  A round
\* that never ends leaves the operation without return (Diverges): the
\* state is the one at which the round was given up, the functions handed
\* out on the way are not counted.
clearReentrant(behaviour) ==
  LET round == notifyChangeReentrant(insertionOrder, behaviour, EmptyStore)
      usedBy(whom) ==
        IF Handles(whom) = {}
        THEN {}
        ELSE {CHOOSE h \in Handles(whom) : \A k \in Handles(whom) : h <= k}
  IN /\ round.returns => Len(unsubscribers) + Len(round.made) <= MaxHandles
     /\ SetStore(EmptyStore)
     /\ insertionOrder' = round.order
     /\ changeCallbacks' = {round.order[i] : i \in 1..Len(round.order)}
     /\ unsubscribers' =
          IF round.returns THEN unsubscribers \o round.made ELSE unsubscribers
     /\ called' = called \cup UNION {usedBy(whom) : whom \in round.dropped}
     /\ calls' = round.log
     /\ op' = Operation("clear", 0, <<>>)
     /\ ret' = IF round.returns THEN Void ELSE Diverges
     /\ issued' = <<>>
     /\ UNCHANGED <<adapterVars, connectionVars, components>>

-----------------------------------------------------------------------------
(* TF2JS as a subscriber of RosbridgeConnection *)

\* RosbridgeConnection.isConnected(): this.ros?.isConnected ?? false.
isConnected(source) == ros[source] = "open"

\* A call TF2JS makes on a connection.
Call(source, method, topic) ==
  [source |-> source, method |-> method, topic |-> topic]

\* A slip for alreadyBound: no early return.
alreadyBoundNever(current, source) == FALSE

\* if (this.connection === connection) return;
alreadyBound(current, source) == current = source

\* The calls disconnect() makes: each closure that is not null calls
\* unsubscribe on the connection it captured.
unsubscribeCalls(tfU, tfSU) ==
  (IF tfU # NoSource THEN <<Call(tfU, "unsubscribe", "/tf")>> ELSE <<>>)
  \o (IF tfSU # NoSource
      THEN <<Call(tfSU, "unsubscribe", "/tf_static")>>
      ELSE <<>>)

\* A slip for runUnsubscribers: the closures are dropped without being called.
runUnsubscribersDropped(subs, tfU, tfSU) == subs

\* RosbridgeConnection.unsubscribe(topicName), as the two closures call it:
\* the subscribers maps after disconnect() has called the closures.
runUnsubscribers(subs, tfU, tfSU) ==
  [s \in Sources |->
     subs[s] \ ((IF tfU = s THEN {"/tf"} ELSE {})
                \cup (IF tfSU = s THEN {"/tf_static"} ELSE {}))]

\* A slip for connectionAfterDisconnect: this.connection is kept.
connectionKept(current) == current

\* this.connection = null, in disconnect().
connectionAfterDisconnect(current) == NoSource

\* A slip for staticSubscribeReached: both subscribes in one try block.
staticSubscribeInSameTry(tfThrows) == ~tfThrows

\* Whether initialize reaches connection.subscribe('/tf_static', ...) when
\* connection.subscribe('/tf', ...) threw: each has its own try/catch.
staticSubscribeReached(tfThrows) == TRUE

\* TF2JS.disconnect().
disconnect ==
  /\ subscribers' = runUnsubscribers(subscribers, tfUnsubscribe,
                                     tfStaticUnsubscribe)
  /\ issued' = unsubscribeCalls(tfUnsubscribe, tfStaticUnsubscribe)
  /\ tfUnsubscribe' = NoSource
  /\ tfStaticUnsubscribe' = NoSource
  /\ connection' = connectionAfterDisconnect(connection)
  /\ SetStore(EmptyStore)
  /\ calls' = notifyChange(NoCalls, changeCallbacks, EmptyStore)
  /\ op' = Operation("disconnect", 0, <<>>)
  /\ ret' = Void
  /\ UNCHANGED <<notifierVars, ros>>

\* TF2JS.initialize(connection).  tfThrows and tfStaticThrows say whether
\* connection.subscribe throws for the channel, should the call be made; a
\* subscribe that throws leaves RosbridgeConnection.subscribers as it was.
initialize(source, tfThrows, tfStaticThrows) ==
  LET released == runUnsubscribers(subscribers, tfUnsubscribe,
                                   tfStaticUnsubscribe)
      unsubscribed == unsubscribeCalls(tfUnsubscribe, tfStaticUnsubscribe)
      staticReached == staticSubscribeReached(tfThrows)
      staticDone == staticReached /\ ~tfStaticThrows
  IN /\ op' = Operation("initialize", 0,
                        <<source,
                          IF tfThrows THEN "throws" ELSE "returns",
                          IF tfStaticThrows THEN "throws" ELSE "returns">>)
     /\ ret' = Void
     /\ UNCHANGED <<notifierVars, ros>>
     /\ IF alreadyBound(connection, source)
        THEN /\ ~tfThrows /\ ~tfStaticThrows
             /\ calls' = NoCalls
             /\ issued' = <<>>
             /\ UNCHANGED <<storeVars, adapterVars, subscribers>>
        ELSE /\ SetStore(EmptyStore)
             /\ calls' = notifyChange(NoCalls, changeCallbacks, EmptyStore)
             /\ connection' = source
             /\ IF ~isConnected(source)
                THEN /\ ~tfThrows /\ ~tfStaticThrows
                     /\ subscribers' = released
                     /\ issued' = unsubscribed
                     /\ tfUnsubscribe' = NoSource
                     /\ tfStaticUnsubscribe' = NoSource
                ELSE /\ subscribers' =
                          [released EXCEPT
                             ![source] =
                               @ \cup (IF tfThrows THEN {} ELSE {"/tf"})
                                 \cup (IF staticDone
                                       THEN {"/tf_static"}
                                       ELSE {})]
                     /\ issued' =
                          unsubscribed
                          \o <<Call(source, "subscribe", "/tf")>>
                          \o (IF staticReached
                              THEN <<Call(source, "subscribe", "/tf_static")>>
                              ELSE <<>>)
                     /\ tfUnsubscribe' =
                          IF tfThrows THEN NoSource ELSE source
                     /\ tfStaticUnsubscribe' =
                          IF staticDone THEN source ELSE NoSource

\* A message without a transforms array, as tfCallback sees it.
NotTransforms == [bytes |-> TRUE]

\* tfCallback / tfStaticCallback, called by the connection `source` with a
\* message of `topic`: addTransforms(msg.transforms) when msg.transforms is
\* an array, nothing otherwise.
deliver(source, topic, message) ==
  /\ isConnected(source)
  /\ topic \in subscribers[source]
  /\ IF message = NotTransforms
     THEN /\ calls' = NoCalls
          /\ op' = Operation("deliver", 0, <<source, topic, "ignored">>)
          /\ ret' = Void
          /\ UNCHANGED storeVars
     ELSE /\ SetStore(applyEach(Store, message.transforms))
          /\ calls' = addTransformsCalls(changeCallbacks, Store,
                                         message.transforms)
          /\ op' = Operation("deliver", Len(message.transforms),
                             <<source, topic, "transforms">>)
          /\ ret' = IF addTransformsThrows(message.transforms)
                    THEN TypeError
                    ELSE Void
  /\ issued' = <<>>
  /\ UNCHANGED <<notifierVars, adapterVars, connectionVars, components>>

\* The 'connection' event of ROSLIB.Ros on `source`.
connects(source) ==
  /\ ros[source] = "none"
  /\ ros' = [ros EXCEPT ![source] = "open"]
  /\ calls' = NoCalls
  /\ issued' = <<>>
  /\ op' = Operation("connects", 0, <<source>>)
  /\ ret' = Void
  /\ UNCHANGED <<storeVars, notifierVars, adapterVars, subscribers, components>>

\* The 'close' event of ROSLIB.Ros on `source`.
closes(source) ==
  /\ ros[source] = "open"
  /\ ros' = [ros EXCEPT ![source] = "closed"]
  /\ calls' = NoCalls
  /\ issued' = <<>>
  /\ op' = Operation("closes", 0, <<source>>)
  /\ ret' = Void
  /\ UNCHANGED <<storeVars, notifierVars, adapterVars, subscribers, components>>

-----------------------------------------------------------------------------
(* The connection effects of MapView and MapEditor *)

\* The connection App creates and hands to the components.
AppConnection == "A"

\* useEffect(() => { ... }, [connection]) of `component` runs on mount.  When
\* the connection is not connected it returns at once, without cleanup
\* ("idle"); otherwise it starts initializeAndSubscribe, which stops at
\* `await connection.initializeMessageReaders()` ("awaiting"), and returns
\* the cleanup.  MapEditor is rendered by MapView.
effectRuns(component) ==
  /\ components[component] = "unmounted"
  /\ component = "MapEditor"
       => components["MapView"] \in {"idle", "awaiting", "ready"}
  /\ components' =
       [components EXCEPT
          ![component] =
            IF isConnected(AppConnection) THEN "awaiting" ELSE "idle"]
  /\ calls' = NoCalls
  /\ issued' = <<>>
  /\ op' = Operation("effect", 0, <<component>>)
  /\ ret' = Void
  /\ UNCHANGED <<storeVars, notifierVars, adapterVars, connectionVars>>

\* The await of initializeAndSubscribe settles: on either path (try or
\* catch) the function calls TF2JS.getInstance().initialize(connection).
\* Nothing cancels it when the cleanup has run in the meantime ("orphaned").
awaitSettles(component) ==
  /\ components[component] \in {"awaiting", "orphaned"}
  /\ initialize(AppConnection, FALSE, FALSE)
  /\ components' =
       [components EXCEPT
          ![component] = IF @ = "awaiting" THEN "ready" ELSE "unmounted"]

\* The cleanup of the effect, on unmount: TF2JS.getInstance().disconnect().
\* MapView is unmounted after the MapEditor it renders.
effectCleanup(component) ==
  /\ components[component] \in {"awaiting", "ready"}
  /\ component = "MapView"
       => components["MapEditor"] \in {"unmounted", "orphaned"}
  /\ disconnect
  /\ components' =
       [components EXCEPT
          ![component] = IF @ = "awaiting" THEN "orphaned" ELSE "unmounted"]

\* Unmount of a component whose effect returned no cleanup.
unmountsIdle(component) ==
  /\ components[component] = "idle"
  /\ component = "MapView"
       => components["MapEditor"] \in {"unmounted", "orphaned"}
  /\ components' = [components EXCEPT ![component] = "unmounted"]
  /\ calls' = NoCalls
  /\ issued' = <<>>
  /\ op' = Operation("unmount", 0, <<component>>)
  /\ ret' = Void
  /\ UNCHANGED <<storeVars, notifierVars, adapterVars, connectionVars>>

-----------------------------------------------------------------------------
(* Specifications *)

\* After getInstance(): an empty store, nothing registered.
Init ==
  /\ frames = EmptyStore.frames
  /\ parent = EmptyStore.parent
  /\ children = EmptyStore.children
  /\ transformToParent = EmptyStore.transformToParent
  /\ rootFrame = EmptyStore.rootFrame
  /\ changeCallbacks = {}
  /\ insertionOrder = <<>>
  /\ unsubscribers = <<>>
  /\ called = {}
  /\ connection = NoSource
  /\ tfUnsubscribe = NoSource
  /\ tfStaticUnsubscribe = NoSource
  /\ ros = [s \in Sources |-> "none"]
  /\ subscribers = [s \in Sources |-> {}]
  /\ components = [c \in Components |-> "unmounted"]
  /\ issued = <<>>
  /\ calls = NoCalls
  /\ op = Operation("new", 0, <<>>)
  /\ ret = Void

\* The well-formed entries of a /tf or /tf_static message that name the
\* frames `ids` and carry one of `transforms`.
Entries(ids, transforms) ==
  [frame_id : ids, child_frame_id : ids, transform : transforms]

\* Four frames, a translating and a rotating link.
TreeEntries == Entries(FrameIds, {TX, RZ})

\* The tree under every one-entry message and clear().
Next ==
  \/ \E ts \in TreeEntries : addTransforms(<<ts>>)
  \/ clear

Spec == Init /\ [][Next]_vars

\* Three frames, every input link, and the callers' queries.
QueryIds == {"map", "base", "sensor"}

QueryEntries == Entries(QueryIds, InputTransforms)

AskedIds == QueryIds \cup {UnknownId}

\* One layer has been constructed and has registered its callback.
InitQuery ==
  /\ frames = EmptyStore.frames
  /\ parent = EmptyStore.parent
  /\ children = EmptyStore.children
  /\ transformToParent = EmptyStore.transformToParent
  /\ rootFrame = EmptyStore.rootFrame
  /\ changeCallbacks = {"cb1"}
  /\ insertionOrder = <<"cb1">>
  /\ unsubscribers = <<"cb1">>
  /\ called = {}
  /\ connection = NoSource
  /\ tfUnsubscribe = NoSource
  /\ tfStaticUnsubscribe = NoSource
  /\ ros = [s \in Sources |-> "none"]
  /\ subscribers = [s \in Sources |-> {}]
  /\ components = [c \in Components |-> "unmounted"]
  /\ issued = <<>>
  /\ calls = NoCalls
  /\ op = Operation("onTransformChange", 1, <<"cb1">>)
  /\ ret = Void

NextQuery ==
  \/ \E ts \in QueryEntries : addTransforms(<<ts>>)
  \/ clear
  \/ \E t \in AskedIds, s \in AskedIds : findTransformCall(t, s)
  \/ getFramesCall
  \/ \E id \in AskedIds : hasFrameCall(id)

SpecQuery == InitQuery /\ [][NextQuery]_vars

\* Whole messages: batches of up to MaxBatch entries, with callbacks
\* registering and unsubscribing in between.
MaxBatch == 5

NotifyEntries ==
  { [frame_id |-> "map", child_frame_id |-> "base", transform |-> TX],
    [frame_id |-> "base", child_frame_id |-> "sensor", transform |-> TY],
    [frame_id |-> "world", child_frame_id |-> "map", transform |-> RZ] }

NotifyBatches == UNION {[1..n -> NotifyEntries] : n \in 0..MaxBatch}

\* Consumers as the layers are written: each registers its own callback once
\* (in its constructor) and calls the returned function once (in dispose).
NextNotify ==
  \/ \E transforms \in NotifyBatches : addTransforms(transforms)
  \/ clear
  \/ \E cb \in Callbacks : Handles(cb) = {} /\ onTransformChange(cb)
  \/ \E h \in 1..MaxHandles : h \notin called /\ unsubscribe(h)

SpecNotify == Init /\ [][NextNotify]_vars

\* The messages of the registration specification.
CallbackBatches ==
  {<<>>,
   <<[frame_id |-> "map", child_frame_id |-> "base", transform |-> TX]>>,
   <<[frame_id |-> "base", child_frame_id |-> "sensor", transform |-> TY]>>}

\* Any caller of the public interface: a callback may be registered again,
\* a returned function may be called again, in any order.
NextCallbacks ==
  \/ \E transforms \in CallbackBatches : addTransforms(transforms)
  \/ clear
  \/ \E cb \in Callbacks : onTransformChange(cb)
  \/ \E h \in 1..MaxHandles : unsubscribe(h)

SpecCallbacks == Init /\ [][NextCallbacks]_vars

\* A message entry is well-formed when it has both ids and a transform with
\* translation and rotation.
WellFormed(ts) ==
  /\ ts.frame_id # UndefinedId
  /\ ts.child_frame_id # UndefinedId
  /\ ts.transform \notin {MissingTransform, MissingTranslation, MissingRotation}

\* Longest message of the malformed-entry specification.
MaxMalformedBatch == 3

\* Two well-formed entries, and one entry for each field a message can lack.
MalformedEntries ==
  {[frame_id |-> "map", child_frame_id |-> "base", transform |-> TX],
   [frame_id |-> "base", child_frame_id |-> "sensor", transform |-> TY],
   [frame_id |-> "world", child_frame_id |-> "sensor", transform |-> MissingTransform],
   [frame_id |-> "world", child_frame_id |-> "sensor", transform |-> MissingTranslation],
   [frame_id |-> "world", child_frame_id |-> "map", transform |-> MissingRotation],
   [frame_id |-> UndefinedId, child_frame_id |-> "sensor", transform |-> TX],
   [frame_id |-> "world", child_frame_id |-> UndefinedId, transform |-> TX]}

MalformedBatches ==
  UNION {[1..n -> MalformedEntries] : n \in 0..MaxMalformedBatch}

\* Messages with malformed entries among well-formed ones, and clear(), with
\* one consumer registered.
NextMalformed ==
  \/ \E transforms \in MalformedBatches : addTransforms(transforms)
  \/ clear

SpecMalformed == InitQuery /\ [][NextMalformed]_vars

\* What the connections deliver: one-entry messages over three frames, the
\* empty message, and a message that is not a transform list.
DeliverMessages ==
  {[transforms |-> <<>>],
   [transforms |->
      <<[frame_id |-> "map", child_frame_id |-> "base", transform |-> TX]>>],
   [transforms |->
      <<[frame_id |-> "base", child_frame_id |-> "sensor", transform |-> TY]>>],
   NotTransforms}

\* TF2JS fed by two connections, with one consumer registered.
NextAdapter ==
  \/ \E source \in Sources, tfThrows \in BOOLEAN, tfStaticThrows \in BOOLEAN :
       initialize(source, tfThrows, tfStaticThrows) /\ UNCHANGED components
  \/ disconnect /\ UNCHANGED components
  \/ \E source \in Sources, topic \in Topics, message \in DeliverMessages :
       deliver(source, topic, message)
  \/ \E source \in Sources : connects(source)
  \/ \E source \in Sources : closes(source)

SpecAdapter == InitQuery /\ [][NextAdapter]_vars

\* Consumers whose callbacks call back into TF2JS while they are notified.
NextReentrant ==
  \/ \E cb \in Callbacks : onTransformChange(cb)
  \/ \E h \in 1..MaxHandles : unsubscribe(h)
  \/ \E behaviour \in [Callbacks -> Behaviours] : clearReentrant(behaviour)

SpecReentrant == Init /\ [][NextReentrant]_vars

\* The two components mounting and unmounting on the connection of App,
\* which connects, delivers transform messages and may close.
NextEffects ==
  \/ \E component \in Components : effectRuns(component)
  \/ \E component \in Components : awaitSettles(component)
  \/ \E component \in Components : effectCleanup(component)
  \/ \E component \in Components : unmountsIdle(component)
  \/ \E topic \in Topics, message \in DeliverMessages :
       deliver(AppConnection, topic, message)
  \/ connects(AppConnection)
  \/ closes(AppConnection)

SpecEffects == InitQuery /\ [][NextEffects]_vars

-----------------------------------------------------------------------------
(* The tree, as the claims speak of it *)

\* The frames reached from the frames of S by following parent edges.
RECURSIVE upClosure(_, _)
upClosure(st, S) ==
  LET T == S \cup ({st.parent[f] : f \in S} \ {NoFrame})
  IN IF T = S THEN S ELSE upClosure(st, T)

AncestorsOrSelf(st, f) == upClosure(st, {f})

ProperAncestors(st, f) == upClosure(st, {st.parent[f]} \ {NoFrame})

\* No frame reaches itself by following parent edges.
Acyclic(st) == \A f \in st.frames : f \notin ProperAncestors(st, f)

\* c is the lowest frame that both t and s reach.
IsLowestCommonAncestor(st, c, t, s) ==
  LET common == AncestorsOrSelf(st, t) \cap AncestorsOrSelf(st, s)
  IN c \in common /\ \A d \in common : d \in AncestorsOrSelf(st, c)

\* The number of links from f up to its ancestor-or-self c (acyclic store).
RECURSIVE Height(_, _, _)
Height(st, f, c) == IF f = c THEN 0 ELSE 1 + Height(st, st.parent[f], c)

\* The pose of f expressed in its ancestor-or-self c (acyclic store): the
\* links from f up to c multiplied with the parent-side link on the left.
RECURSIVE PoseIn(_, _, _)
PoseIn(st, f, c) ==
  IF f = c
  THEN IdentityMatrix
  ELSE multiplyMatrices(PoseIn(st, st.parent[f], c), st.transformToParent[f])

-----------------------------------------------------------------------------
(* Claims *)

\* C1: in every acyclic reachable state, findTransform(target, source) is the
\* pose of source expressed in target: with c their lowest common ancestor,
\* inverse(Tm * ... * T1) * (Sk * ... * S1), the parent-side link always the
\* left factor, whatever the lengths of the two chains.
C1_PoseOfSourceInTarget ==
  Acyclic(Store) =>
    \A t \in frames, s \in frames, c \in frames :
      IsLowestCommonAncestor(Store, c, t, s) =>
        findTransform(Store, t, s) =
          multiplyMatrices(invert(PoseIn(Store, t, c)), PoseIn(Store, s, c))

\* Every frame that f reaches is off every cycle: the parent chain of f ends.
ChainEnds(st, f) ==
  \A g \in AncestorsOrSelf(st, f) : g \notin ProperAncestors(st, g)

\* The frames of the chain from desc up to, not including, its ancestor anc.
ChainFrames(st, desc, anc) ==
  AncestorsOrSelf(st, desc) \ AncestorsOrSelf(st, anc)

\* The sum of the link translations from desc up to its ancestor-or-self anc.
RECURSIVE SumOfTranslations(_, _, _)
SumOfTranslations(st, desc, anc) ==
  IF desc = anc
  THEN Vec(0, 0, 0)
  ELSE VecAdd(st.transformToParent[desc].tr,
              SumOfTranslations(st, st.parent[desc], anc))

C3_InverseConsistency ==
  Acyclic(Store) =>
    \A a \in FrameIds \cup {UnknownId}, b \in FrameIds \cup {UnknownId} :
      findTransform(Store, a, b) # Null =>
        /\ findTransform(Store, b, a) # Null
        /\ multiplyMatrices(findTransform(Store, a, b),
                            findTransform(Store, b, a)) = IdentityMatrix

\* C3's case: an acyclic tree where A hangs two links and B one link below
\* their common ancestor, one of A's links rotating, and the two results
\* multiply to the identity.
C3_Witness ==
  /\ Acyclic(Store)
  /\ \E a \in frames, b \in frames, c \in frames :
       /\ IsLowestCommonAncestor(Store, c, a, b)
       /\ Height(Store, a, c) = 2
       /\ Height(Store, b, c) = 1
       /\ transformToParent[a] = RZ
       /\ transformToParent[parent[a]] = TX
       /\ findTransform(Store, a, b) # IdentityMatrix
       /\ multiplyMatrices(findTransform(Store, a, b),
                           findTransform(Store, b, a)) = IdentityMatrix

\* C4: in every reachable state, for every frame f of the tree,
\* findTransform(f, f) is zero translation and identity rotation.
C4_SelfTransformIsIdentity ==
  \A f \in frames : findTransform(Store, f, f) = IdentityMatrix

\* C5: in every acyclic reachable state, for two frames that are both
\* present, findTransform is null exactly when their parent chains share no
\* frame.
C5_NullIffDisconnected ==
  Acyclic(Store) =>
    \A t \in frames, s \in frames :
      (findTransform(Store, t, s) = Null)
        <=> (AncestorsOrSelf(Store, t) \cap AncestorsOrSelf(Store, s) = {})

\* C5's example: after addTransform(a, b) and addTransform(x, y) the four
\* frames form two trees and findTransform(b, y) is null.
C5_Witness ==
  /\ Acyclic(Store)
  /\ frames = FrameIds
  /\ \E a \in frames, b \in frames, x \in frames, y \in frames :
       /\ Cardinality({a, b, x, y}) = 4
       /\ parent[b] = a /\ parent[y] = x
       /\ parent[a] = NoFrame /\ parent[x] = NoFrame
       /\ findTransform(Store, b, y) = Null
       /\ findTransform(Store, a, b) # Null

QueryNames == {"findTransform", "getFrames", "hasFrame"}

\* C6: findTransform(target, source) returns null whenever target or source
\* is not a key of the frame mapping, and no call of findTransform, getFrames
\* or hasFrame changes the frames, an edge, a transform, the root or the
\* callback set, or calls a callback.
C6_QueriesChangeNothing ==
  [][op'.name \in QueryNames =>
       /\ UNCHANGED <<storeVars, changeCallbacks>>
       /\ calls' = NoCalls
       /\ (op'.name = "findTransform"
             /\ (op'.args[1] \notin frames \/ op'.args[2] \notin frames))
            => ret' = Null]_vars

\* C6's case: with frames in the store and a callback registered,
\* findTransform has been asked about an id that is no key and returned null.
C6_Witness ==
  /\ op.name = "findTransform"
  /\ op.args[1] = UnknownId
  /\ op.args[2] \in frames
  /\ changeCallbacks # {}
  /\ UnknownId \notin frames
  /\ ret = Null

\* C7: in every reachable state, every call findTransform(x, y) terminates
\* and returns a transform or null: the parent walks reach a parentless frame.
C7_FindTransformReturns ==
  \A x \in FrameIds \cup {UnknownId}, y \in FrameIds \cup {UnknownId} :
    findTransform(Store, x, y) # Diverges

\* C8: whenever addTransform(parent, child, T) is applied while child is the
\* root, parent is the root afterwards and findTransform(parent, child) is T;
\* when child is not the root and the store was not empty, the root stays.
C8_RootFollowsReparenting ==
  [][\A ts \in TreeEntries :
       addTransforms(<<ts>>) =>
         IF rootFrame = ts.child_frame_id
         THEN /\ rootFrame' = ts.frame_id
              /\ findTransform(Store', ts.frame_id, ts.child_frame_id)
                   = ts.transform
         ELSE frames # {} => rootFrame' = rootFrame]_vars

\* C9: after addTransforms(list) with n >= 1 entries, each registered callback
\* has been called exactly once, and what it saw is the store with the whole
\* batch applied; a callback that is not registered has not been called.
C9_BatchNotifiesOnce ==
  (op.name = "addTransforms" /\ op.n >= 1) =>
    \A cb \in Callbacks :
      calls[cb] = IF cb \in changeCallbacks THEN <<Store>> ELSE <<>>

\* C9's case: a batch of five entries, both callbacks registered, each called
\* once with the tree the batch built.
C9_Witness ==
  /\ op.name = "addTransforms" /\ op.n = 5
  /\ changeCallbacks = Callbacks
  /\ frames = FrameIds
  /\ \A cb \in Callbacks : Len(calls[cb]) = 1 /\ calls[cb][1] = Store

C11_ClearResetsState ==
  op.name = "clear" =>
    /\ getFrames(Store) = {}
    /\ rootFrame = NoFrame
    /\ \A id \in FrameIds \cup {UnknownId} : ~hasFrame(Store, id)
    /\ \A t \in FrameIds \cup {UnknownId}, s \in FrameIds \cup {UnknownId} :
         findTransform(Store, t, s) = Null
    /\ \A cb \in Callbacks :
         Len(calls[cb]) = IF cb \in changeCallbacks THEN 1 ELSE 0

\* C11's case: clear() has run with both callbacks registered; each was
\* called once and saw the empty store.
C11_Witness ==
  /\ op.name = "clear"
  /\ changeCallbacks = Callbacks
  /\ frames = {} /\ rootFrame = NoFrame
  /\ \A cb \in Callbacks : calls[cb] = <<EmptyStore>>

\* C19: in every reachable state no frame reaches itself by following parent
\* edges: addTransform never introduces a cycle.
C19_NoParentCycle == Acyclic(Store)

\* The number of times frame c occurs in the children array of p.
Occurrences(st, p, c) ==
  Cardinality({i \in 1..Len(st.children[p]) : st.children[p][i] = c})

\* C20: in every reachable state frame c occurs in p.children if and only if
\* c.parent = p, and then exactly once; so no frame is in the children of two
\* frames.
C20_ChildrenMirrorParents ==
  \A p \in DOMAIN children, c \in DOMAIN children :
    Occurrences(Store, p, c) = IF parent[c] = p THEN 1 ELSE 0

\* C20's case: a frame that lost its only child to another parent (it is in
\* the store without any edge, which only a move leaves behind), the moved
\* child listed once under its new parent.
C20_Witness ==
  \E a \in frames, b \in frames, c \in frames :
    /\ a # b /\ a # c /\ b # c
    /\ parent[a] = NoFrame /\ children[a] = <<>>
    /\ parent[c] = b
    /\ Occurrences(Store, b, c) = 1

\* C12: addTransforms on a message with malformed entries (transform,
\* translation, rotation, frame_id or child_frame_id missing) returns without
\* an error and leaves the store that the well-formed entries alone, applied
\* in order, would leave: each malformed entry is dropped without creating or
\* changing any frame.
C12_MalformedEntryDroppedAlone ==
  [][\A transforms \in MalformedBatches :
       addTransforms(transforms) =>
         /\ ret' = Void
         /\ Store' = applyEach(Store, SelectSeq(transforms, WellFormed))]_vars

\* C13: once every function onTransformChange(cb) returned has been called,
\* no addTransforms and no clear invokes cb, while each callback in the set
\* is invoked once by every clear and every non-empty batch; and calling a
\* returned function that was called before changes nothing.
C13_UnsubscribedCallbackStaysSilent ==
  [][/\ op'.name \in {"addTransforms", "clear"} =>
          \A cb \in Callbacks :
            /\ (Handles(cb) # {} /\ Handles(cb) \subseteq called)
                 => calls'[cb] = <<>>
            /\ (cb \in changeCallbacks
                  /\ (op'.name = "clear" \/ op'.n > 0))
                 => Len(calls'[cb]) = 1
     /\ (op'.name = "unsubscribe" /\ op'.n \in called)
          => changeCallbacks' = changeCallbacks]_vars

\* C14: after initialize(source) on a connected source, with no subscribe
\* throwing, TF2JS is bound to the source and subscribed on it to both
\* channels; also when an earlier initialize found the source not connected.
C14_BoundMeansSubscribed ==
  (/\ op.name = "initialize"
   /\ op.args[2] = "returns" /\ op.args[3] = "returns"
   /\ isConnected(op.args[1]))
    => /\ connection = op.args[1]
       /\ subscribers[op.args[1]] = Topics

\* C15: initialize(source) while bound to that source changes neither the
\* store, the callback set, the binding nor any subscription, makes no call
\* on any connection and calls no callback.
C15_InitializeSameSourceIsNoOp ==
  [][(op'.name = "initialize" /\ op'.args[1] = connection) =>
       /\ UNCHANGED <<storeVars, changeCallbacks, adapterVars, subscribers>>
       /\ issued' = <<>>
       /\ calls' = NoCalls]_vars

\* C15's case: initialize(source) has returned on a TF2JS that is bound to
\* the source, subscribed to both channels and holds frames: nothing was
\* cleared, nothing was issued.
C15_Witness ==
  /\ op.name = "initialize"
  /\ connection = op.args[1]
  /\ subscribers[connection] = Topics
  /\ frames # {}
  /\ issued = <<>>

\* C16: initialize(B) while bound to A removes A's subscriptions by calls on
\* A, empties the tree and binds B; in every state only the bound connection
\* holds subscriptions, so only its messages reach the tree and TF2JS is
\* never subscribed on two connections at once.
C16_RebindingReleasesOldSource ==
  [][/\ (op'.name = "initialize" /\ connection \notin {NoSource, op'.args[1]})
          => /\ subscribers'[connection] = {}
             /\ frames' = {}
             /\ connection' = op'.args[1]
             /\ \A i \in 1..Len(issued') :
                  issued'[i].source =
                    IF issued'[i].method = "unsubscribe"
                    THEN connection
                    ELSE connection'
     /\ \A s \in Sources : subscribers'[s] # {} => s = connection'
     /\ op'.name = "deliver" => op'.args[1] = connection']_vars

\* C16's case: initialize("B") has unsubscribed both channels on "A" and
\* subscribed both on "B".
C16_Witness ==
  /\ op.name = "initialize"
  /\ connection = "B"
  /\ issued = <<Call("A", "unsubscribe", "/tf"),
                Call("A", "unsubscribe", "/tf_static"),
                Call("B", "subscribe", "/tf"),
                Call("B", "subscribe", "/tf_static")>>
  /\ subscribers = [s \in Sources |-> IF s = "B" THEN Topics ELSE {}]

\* C17: disconnect() leaves no subscription, no closure, no connection and an
\* empty tree, and calls each registered callback once; while no connection
\* is bound the tree stays empty; initialize on a connected source (no
\* subscribe throwing) from the unbound state subscribes to both channels.
C17_DisconnectReleasesEverything ==
  [][/\ op'.name = "disconnect"
          => /\ tfUnsubscribe' = NoSource
             /\ tfStaticUnsubscribe' = NoSource
             /\ connection' = NoSource
             /\ \A s \in Sources : subscribers'[s] = {}
             /\ frames' = {} /\ rootFrame' = NoFrame
             /\ \A cb \in Callbacks :
                  calls'[cb] =
                    IF cb \in changeCallbacks THEN <<EmptyStore>> ELSE <<>>
     /\ connection' = NoSource => frames' = {}
     /\ (/\ op'.name = "initialize"
         /\ connection = NoSource
         /\ isConnected(op'.args[1])
         /\ op'.args[2] = "returns" /\ op'.args[3] = "returns")
          => /\ connection' = op'.args[1]
             /\ subscribers'[op'.args[1]] = Topics]_vars

\* C17's case: disconnect() has unsubscribed both channels and the registered
\* callback was called once, on the empty store.
C17_Witness ==
  /\ op.name = "disconnect"
  /\ Len(issued) = 2
  /\ connection = NoSource
  /\ calls["cb1"] = <<EmptyStore>>

\* C18: when subscribe throws for one channel during initialize, the other
\* channel is subscribed and kept, TF2JS is bound to the source and
\* initialize returns; disconnect() calls unsubscribe for exactly the
\* channels that are subscribed.
C18_OneFailedSubscribeKeepsTheOther ==
  [][/\ (op'.name = "initialize" /\ op'.args[2] # op'.args[3])
          => /\ ret' = Void
             /\ connection' = op'.args[1]
             /\ subscribers'[connection'] =
                  IF op'.args[2] = "throws" THEN {"/tf_static"} ELSE {"/tf"}
             /\ tfUnsubscribe' =
                  IF op'.args[2] = "throws" THEN NoSource ELSE connection'
             /\ tfStaticUnsubscribe' =
                  IF op'.args[3] = "throws" THEN NoSource ELSE connection'
     /\ op'.name = "disconnect"
          => {issued'[i] : i \in 1..Len(issued')} =
               {Call(s, "unsubscribe", t) :
                  s \in Sources, t \in Topics} \cap
               {c \in [source : Sources, method : {"unsubscribe"},
                       topic : Topics] : c.topic \in subscribers[c.source]}]_vars

\* C18's case: disconnect() after an initialize whose subscribe to /tf threw:
\* the one call it made is the unsubscribe of /tf_static.
C18_Witness ==
  /\ op.name = "disconnect"
  /\ issued = <<Call("A", "unsubscribe", "/tf_static")>>
  /\ subscribers["A"] = {}

\* C21: in every reachable state with a non-null root, the root frame has no
\* parent edge.
C21_RootHasNoParent ==
  rootFrame # NoFrame => parent[rootFrame] = NoFrame

\* C22: the first addTransform on an empty store makes its parent-side frame
\* the root; in every state the root is non-null exactly when the frame
\* mapping is not empty, and a non-null root is a key of the mapping.
C22_RootIffFrames ==
  [][/\ (rootFrame' # NoFrame) <=> (frames' # {})
     /\ rootFrame' # NoFrame => rootFrame' \in frames'
     /\ (frames = {} /\ frames' # {})
          => /\ \E c \in frames' : parent'[c] = rootFrame'
             /\ \A c \in frames' :
                  parent'[c] # NoFrame => parent'[c] = rootFrame']_vars

\* C22's case: the store after one entry p -> c applied to the empty store:
\* two frames, the root is the parent side.
C22_Witness ==
  /\ Cardinality(frames) = 2
  /\ rootFrame \in frames
  /\ parent[rootFrame] = NoFrame
  /\ \E c \in frames : c # rootFrame /\ parent[c] = rootFrame

\* The ids that the entries of a batch name as parent or child.
NamedIds(transforms) ==
  {transforms[i].frame_id : i \in 1..Len(transforms)}
  \cup {transforms[i].child_frame_id : i \in 1..Len(transforms)}

\* C23: addTransforms adds to the frame ids exactly the ids named as parent
\* or child by the entries it applies (the well-formed ones), clear() empties
\* the set, and no other operation adds or removes a frame id.
C23_FramesAreTheNamedIds ==
  [][/\ \A transforms \in MalformedBatches :
          addTransforms(transforms)
            => frames' = frames \cup NamedIds(SelectSeq(transforms, WellFormed))
     /\ op'.name = "clear" => frames' = {}
     /\ op'.name \notin {"addTransforms", "clear"} => frames' = frames]_vars

\* C24: after addTransform(p, c, T), whatever c's parent and transform were
\* before, c's parent is p, the transform held for c is T, findTransform(p, c)
\* returns T, and c is in the children of no frame other than p.
C24_LatestTransformPerChild ==
  [][\A ts \in TreeEntries :
       addTransforms(<<ts>>) =>
         /\ parent'[ts.child_frame_id] = ts.frame_id
         /\ transformToParent'[ts.child_frame_id] = ts.transform
         /\ findTransform(Store', ts.frame_id, ts.child_frame_id) = ts.transform
         /\ \A q \in frames' :
              q # ts.frame_id => Occurrences(Store', q, ts.child_frame_id) = 0]_vars

\* The links findTransform should collect on the side of frame f: those of
\* the frames from f up to, not including, the ancestor c, in that order.
LinksStrictlyBelow(st, f, c) ==
  LET path == parentWalk(st, f, <<>>)
  IN [i \in 1..Height(st, f, c) |-> st.transformToParent[path[i]]]

\* C25: in every acyclic state, for two frames that share an ancestor, the
\* frame findTransform selects is their lowest common ancestor, and the two
\* arrays it composes hold exactly the links strictly below that frame on
\* the source side and on the target side.
C25_SelectsLowestCommonAncestor ==
  Acyclic(Store) =>
    \A s \in frames, t \in frames :
      (AncestorsOrSelf(Store, s) \cap AncestorsOrSelf(Store, t) # {}) =>
        LET pathToRoot == parentWalk(Store, s, <<>>)
            targetPath == parentWalk(Store, t, <<>>)
            found == commonAncestorIndex(pathToRoot, targetPath)
        IN /\ found # 0
           /\ IsLowestCommonAncestor(Store, pathToRoot[found], t, s)
           /\ linksBelow(Store, s, pathToRoot[found])
                = LinksStrictlyBelow(Store, s, pathToRoot[found])
           /\ commonToTargetOf(Store, t, pathToRoot[found])
                = Reverse(LinksStrictlyBelow(Store, t, pathToRoot[found]))

\* C25's case: two siblings whose parent is not the top of the tree: their
\* lowest common ancestor is neither of them nor the topmost frame.
C25_Witness ==
  /\ Acyclic(Store)
  /\ \E s \in frames, t \in frames :
       /\ s # t
       /\ parent[s] # NoFrame /\ parent[s] = parent[t]
       /\ parent[parent[s]] # NoFrame
       /\ commonAncestorIndex(parentWalk(Store, s, <<>>),
                              parentWalk(Store, t, <<>>)) = 2

\* C26: a notification round calls exactly the callbacks that were in the
\* set when the round started, each of them once, whatever the callbacks
\* register or unsubscribe while they are called, and the round ends.
C26_RoundIteratesSnapshot ==
  [][op'.name = "clear" =>
       /\ ret' = Void
       /\ \A cb \in Callbacks :
            Len(calls'[cb]) = IF cb \in changeCallbacks THEN 1 ELSE 0]_vars

\* C27: an addTransforms call that changes the store calls every registered
\* callback once before it ends, whether it returns or throws.
C27_ChangedStoreIsNotified ==
  [][(op'.name = "addTransforms" /\ Store' # Store) =>
       \A cb \in changeCallbacks : Len(calls'[cb]) = 1]_vars

\* C28: a callback stays registered as long as one of the functions that
\* onTransformChange returned for it has not been called.
C28_EachCallRegistersSeparately ==
  \A cb \in Callbacks :
    (\E h \in Handles(cb) : h \notin called) => cb \in changeCallbacks

\* C29: while MapView has initialized the singleton on its connection, no
\* step of MapEditor (its effect, the settling of its await, its cleanup)
\* changes the tree, the binding or the subscriptions.
C29_EditorLeavesSingletonToMapView ==
  [][(/\ components["MapView"] = "ready"
      /\ components'["MapEditor"] # components["MapEditor"])
       => UNCHANGED <<storeVars, adapterVars, subscribers>>]_vars

\* C30: the initialize that an effect scheduled behind its await changes
\* nothing when it runs after the cleanup of that effect: the singleton stays
\* as disconnect() left it.
C30_CleanupCancelsPendingInitialize ==
  [][\A component \in Components :
       (/\ components[component] = "orphaned"
        /\ components'[component] = "unmounted")
         => UNCHANGED <<storeVars, adapterVars, subscribers>>]_vars

====
